---- MODULE Spec2Model ----
(***************************************************************************)
(* Model of the transaction re-index monitor: the hook                     *)
(* useTransactionMonitoring (src/src/hooks/use-transaction-monitoring.ts)  *)
(* and the API client RelayApiService (src/src/lib/relay-api.ts).          *)
(*                                                                         *)
(* Strings are sequences of tokens.  A token is one character (hex digits, *)
(* decimal digits) or an atomic word that the code only ever looks for as  *)
(* a whole ("etherscan.io", "/tx/", "Network").  String.includes and the   *)
(* regular expressions are computed on these sequences.                    *)
(* An optional value (null / undefined / absent field) is the empty        *)
(* sequence, a present value x is <<x>>.                                   *)
(***************************************************************************)
EXTENDS Integers, Sequences, FiniteSets, Bags, TLC

(***************************************************************************)
(* Bounds of the model.                                                    *)
(***************************************************************************)
MaxCalls == 2      \* asynchronous invocations in flight at the same time
MaxTicks == 2      \* timer ticks fired for one session (Spec)
MaxClock == 1      \* values taken by the wall clock: 0..MaxClock
MaxPollTicks == 32 \* timer ticks fired for one session (SpecPoll)
MaxCycleTicks == 1 \* timer ticks fired for one session (SpecCycle)
MaxFailedPolls == 2 \* ticks that find nothing or fail before every check succeeds (SpecLive)
MaxSpaces == 1     \* spaces typed on each side of a hash
MaxChainId == 2    \* chain ids passed to indexTransaction: -MaxChainId..MaxChainId

(***************************************************************************)
(* Program constants.                                                      *)
(***************************************************************************)
POLLING_INTERVAL == 2000
MAX_FAST_POLLS == 30
SLOW_POLLING_INTERVAL == 10000
HexLen == 64

None == <<>>
Some(x) == <<x>>

(***************************************************************************)
(* Strings.                                                                *)
(***************************************************************************)
Includes(s, p) ==
  \E i \in 0..(Len(s) - Len(p)) : SubSeq(s, i + 1, i + Len(p)) = p

IsSpace(t) == t = " "

RECURSIVE TrimLeft(_)
TrimLeft(s) ==
  IF s # <<>> /\ IsSpace(Head(s)) THEN TrimLeft(Tail(s)) ELSE s

RECURSIVE TrimRight(_)
TrimRight(s) ==
  IF s # <<>> /\ IsSpace(s[Len(s)]) THEN TrimRight(SubSeq(s, 1, Len(s) - 1)) ELSE s

Trim(s) == TrimRight(TrimLeft(s))

HexChars == {"0", "1", "2", "3", "4", "5", "6", "7", "8", "9",
             "a", "b", "c", "d", "e", "f", "A", "B", "C", "D", "E", "F"}

Digits == <<"0", "1", "2", "3", "4", "5", "6", "7", "8", "9">>

IsDigit(t) == \E i \in 1..10 : Digits[i] = t

DigitValue(t) == (CHOOSE i \in 1..10 : Digits[i] = t) - 1

\* parseInt of a string of decimal digits
RECURSIVE ParseInt(_)
ParseInt(s) ==
  IF s = <<>> THEN 0
  ELSE 10 * ParseInt(SubSeq(s, 1, Len(s) - 1)) + DigitValue(s[Len(s)])

\* 0x[a-fA-F0-9]{64} matched at position i of s (i is the place of "0")
HashAt(s, i) ==
  /\ i >= 1
  /\ i + 1 + HexLen <= Len(s)
  /\ s[i] = "0"
  /\ s[i + 1] = "x"
  /\ \A k \in 1..HexLen : s[i + 1 + k] \in HexChars

\* /^0x[a-fA-F0-9]{64}$/.test(s)
IsCanonicalHash(s) == Len(s) = HexLen + 2 /\ HashAt(s, 1)

(***************************************************************************)
(* RelayApiService.extractTxHashFromUrl                                    *)
(***************************************************************************)
patterns ==
  << <<"etherscan.io", "/tx/">>,
     <<"sepolia", ".", "etherscan.io", "/tx/">>,
     <<"goerli", ".", "etherscan.io", "/tx/">>,
     <<"polygonscan.com", "/tx/">>,
     <<"mumbai", ".", "polygonscan.com", "/tx/">>,
     <<"arbiscan.io", "/tx/">>,
     <<"nova", ".", "arbiscan.io", "/tx/">>,
     <<"testnet", ".", "arbiscan.io", "/tx/">>,
     <<"optimistic", ".", "etherscan.io", "/tx/">>,
     <<"goerli", "-optimism", ".", "etherscan.io", "/tx/">>,
     <<"basescan.org", "/tx/">>,
     <<"goerli", ".", "basescan.org", "/tx/">>,
     <<"bscscan.com", "/tx/">>,
     <<"testnet", ".", "bscscan.com", "/tx/">> >>

\* the pattern prefix p followed by a hash, matched at position i of url
PatternAt(url, p, i) ==
  /\ i + Len(p) - 1 <= Len(url)
  /\ SubSeq(url, i, i + Len(p) - 1) = p
  /\ HashAt(url, i + Len(p))

PatternMatches(url, p) == \E i \in 1..Len(url) : PatternAt(url, p, i)

\* url.match(pattern)[1]: the capture of the leftmost match
PatternCapture(url, p) ==
  LET i == CHOOSE j \in 1..Len(url) :
             PatternAt(url, p, j) /\ \A k \in 1..(j - 1) : ~PatternAt(url, p, k)
      h == i + Len(p)
  IN SubSeq(url, h, h + 1 + HexLen)

\* variant of the code: the input is tested as typed, without trim()
extractTxHashFromUrlUntrimmed(url) ==
  IF IsCanonicalHash(url) THEN Some(url)
  ELSE IF \E n \in 1..Len(patterns) : PatternMatches(url, patterns[n])
       THEN LET n == CHOOSE m \in 1..Len(patterns) :
                       /\ PatternMatches(url, patterns[m])
                       /\ \A k \in 1..(m - 1) : ~PatternMatches(url, patterns[k])
            IN Some(PatternCapture(url, patterns[n]))
       ELSE None

extractTxHashFromUrl(url) ==
  IF IsCanonicalHash(Trim(url)) THEN Some(Trim(url))
  ELSE IF \E n \in 1..Len(patterns) : PatternMatches(url, patterns[n])
       THEN LET n == CHOOSE m \in 1..Len(patterns) :
                       /\ PatternMatches(url, patterns[m])
                       /\ \A k \in 1..(m - 1) : ~PatternMatches(url, patterns[k])
            IN Some(PatternCapture(url, patterns[n]))
       ELSE None

(***************************************************************************)
(* RelayApiService.getChainIdFromUrl                                       *)
(***************************************************************************)
staticMappings ==
  << [domain |-> <<"etherscan.io">>, chainId |-> 1],
     [domain |-> <<"sepolia", ".", "etherscan.io">>, chainId |-> 11155111],
     [domain |-> <<"goerli", ".", "etherscan.io">>, chainId |-> 5],
     [domain |-> <<"polygonscan.com">>, chainId |-> 137],
     [domain |-> <<"mumbai", ".", "polygonscan.com">>, chainId |-> 80001],
     [domain |-> <<"arbiscan.io">>, chainId |-> 42161],
     [domain |-> <<"nova", ".", "arbiscan.io">>, chainId |-> 42170],
     [domain |-> <<"testnet", ".", "arbiscan.io">>, chainId |-> 421613],
     [domain |-> <<"optimistic", ".", "etherscan.io">>, chainId |-> 10],
     [domain |-> <<"goerli", "-optimism", ".", "etherscan.io">>, chainId |-> 420],
     [domain |-> <<"basescan.org">>, chainId |-> 8453],
     [domain |-> <<"goerli", ".", "basescan.org">>, chainId |-> 84531],
     [domain |-> <<"bscscan.com">>, chainId |-> 56],
     [domain |-> <<"testnet", ".", "bscscan.com">>, chainId |-> 97] >>

StaticHit(url) == \E n \in 1..Len(staticMappings) : Includes(url, staticMappings[n].domain)

\* the first entry, in insertion order, whose domain the url includes
StaticChainId(url) ==
  LET n == CHOOSE m \in 1..Len(staticMappings) :
             /\ Includes(url, staticMappings[m].domain)
             /\ \A k \in 1..(m - 1) : ~Includes(url, staticMappings[k].domain)
  IN staticMappings[n].chainId

\* /\/chain\/(\d+)\// matched at position i: "/chain/", digits up to j, "/"
ChainPathAt(url, i, j) ==
  /\ url[i] = "/chain/"
  /\ j > i
  /\ j + 1 <= Len(url)
  /\ \A k \in (i + 1)..j : IsDigit(url[k])
  /\ url[j + 1] = "/"

ChainPathMatches(url) ==
  \E i \in 1..Len(url) : \E j \in 1..Len(url) : ChainPathAt(url, i, j)

ChainPathId(url) ==
  LET i == CHOOSE a \in 1..Len(url) :
             /\ \E j \in 1..Len(url) : ChainPathAt(url, a, j)
             /\ \A b \in 1..(a - 1) : ~\E j \in 1..Len(url) : ChainPathAt(url, b, j)
      j == CHOOSE c \in 1..Len(url) : ChainPathAt(url, i, c)
  IN ParseInt(SubSeq(url, i + 1, j))

\* String.toLowerCase on the words that occur in chain names
Lower(t) ==
  CASE t = "Arbitrum" -> "arbitrum"
    [] t = "One" -> "one"
    [] t = "Nova" -> "nova"
    [] t = "Polygon" -> "polygon"
    [] t = "Ethereum" -> "ethereum"
    [] t = "Mainnet" -> "mainnet"
    [] t = "Base" -> "base"
    [] t = "Optimism" -> "optimism"
    [] t = "BSC" -> "bsc"
    [] t = "Binance" -> "binance"
    [] OTHER -> t

toLowerCase(s) == [i \in 1..Len(s) |-> Lower(s[i])]

\* the seven lookups of the chain list, in the order of the code:
\* the url must include inc and none of exc; a chain is taken when its id is
\* the string id or its lower-cased name satisfies the rule's name test
apiRules ==
  << [inc |-> <<"arbiscan.io">>, exc |-> {<<"nova">>, <<"testnet">>},
      id |-> <<"4", "2", "1", "6", "1">>],
     [inc |-> <<"nova", ".", "arbiscan.io">>, exc |-> {},
      id |-> <<"4", "2", "1", "7", "0">>],
     [inc |-> <<"polygonscan.com">>, exc |-> {<<"mumbai">>},
      id |-> <<"1", "3", "7">>],
     [inc |-> <<"bscscan.com">>, exc |-> {<<"testnet">>},
      id |-> <<"5", "6">>],
     [inc |-> <<"basescan.org">>, exc |-> {<<"goerli">>},
      id |-> <<"8", "4", "5", "3">>],
     [inc |-> <<"optimistic", ".", "etherscan.io">>, exc |-> {<<"goerli">>},
      id |-> <<"1", "0">>],
     [inc |-> <<"etherscan.io">>, exc |-> {<<"sepolia">>, <<"goerli">>},
      id |-> <<"1">>] >>

ApiNameTest(n, name) ==
  LET l == toLowerCase(name) IN
  CASE n = 1 -> Includes(l, <<"arbitrum">>) /\ (Includes(l, <<"one">>) \/ l = <<"arbitrum">>)
    [] n = 2 -> Includes(l, <<"nova">>)
    [] n = 3 -> Includes(l, <<"polygon">>) /\ ~Includes(l, <<"mumbai">>) /\ ~Includes(l, <<"test">>)
    [] n = 4 -> Includes(l, <<"bsc">>) \/ Includes(l, <<"binance">>)
    [] n = 5 -> Includes(l, <<"base">>) /\ ~Includes(l, <<"goerli">>) /\ ~Includes(l, <<"test">>)
    [] n = 6 -> Includes(l, <<"optimism">>) /\ ~Includes(l, <<"goerli">>) /\ ~Includes(l, <<"test">>)
    [] n = 7 -> l = <<"ethereum">> \/ l = <<"mainnet">>

ApiRuleApplies(url, n) ==
  /\ Includes(url, apiRules[n].inc)
  /\ \A e \in apiRules[n].exc : ~Includes(url, e)

ApiChainFound(n, chain) == chain.id = apiRules[n].id \/ ApiNameTest(n, chain.name)

\* rule n returns a chain id: the rule applies and chains.find finds a chain
ApiRuleHit(url, chains, n) ==
  /\ ApiRuleApplies(url, n)
  /\ \E c \in 1..Len(chains) : ApiChainFound(n, chains[c])

ApiRuleId(chains, n) ==
  LET c == CHOOSE d \in 1..Len(chains) :
             /\ ApiChainFound(n, chains[d])
             /\ \A k \in 1..(d - 1) : ~ApiChainFound(n, chains[k])
  IN ParseInt(chains[c].id)

\* the part of getChainIdFromUrl before the chain list is fetched:
\* Some(id) when a static mapping or a /chain/<id>/ segment decides, else None
getChainIdFromUrlStatic(url) ==
  IF StaticHit(url) THEN Some(StaticChainId(url))
  ELSE IF ChainPathMatches(url) THEN Some(ChainPathId(url))
  ELSE None

NeedsChainList(url) == ~StaticHit(url) /\ ~ChainPathMatches(url)

\* the part of getChainIdFromUrl after getChains has settled; fetched is the
\* outcome of getChains.  A rejection, and the TypeError of chains.map on a
\* body that is not an array, are caught and give null
getChainIdFromUrlApi(url, fetched) ==
  IF fetched.threw \/ fetched.kind # "array" THEN None
  ELSE LET chains == fetched.value[1] IN
       IF \E n \in 1..Len(apiRules) : ApiRuleHit(url, chains, n)
       THEN LET n == CHOOSE m \in 1..Len(apiRules) :
                       /\ ApiRuleHit(url, chains, m)
                       /\ \A k \in 1..(m - 1) : ~ApiRuleHit(url, chains, k)
            IN Some(ApiRuleId(chains, n))
       ELSE None

(***************************************************************************)
(* RelayApiService.makeRequest                                             *)
(*                                                                         *)
(* A reply of fetch is [net, status, statusText, json, body]:              *)
(*   net        Some(message) when fetch itself rejects (no response)      *)
(*   status     the HTTP status, as its decimal digits                     *)
(*   statusText the reason phrase                                          *)
(*   json       the content-type header includes application/json          *)
(*   body       [kind, text, obj]: kind "text" is a body that is not JSON  *)
(*              (text, possibly empty), "string" a JSON string (text),     *)
(*              "null" the JSON null, "object" a JSON object (obj),        *)
(*              "array" a JSON array (obj)                                 *)
(* A JSON object is a record; an absent field is absent from its domain.   *)
(***************************************************************************)
Has(o, f) == f \in DOMAIN o

\* errorJson.<f> is truthy: present and not the empty string
Truthy(o, f) == Has(o, f) /\ o[f] # <<>>

\* { ...p, ...q }
Spread(p, q) ==
  [f \in DOMAIN p \cup DOMAIN q |-> IF f \in DOMAIN q THEN q[f] ELSE p[f]]

ResponseOk(reply) == Len(reply.status) = 3 /\ reply.status[1] = "2"

DefaultErrorMessage(reply) ==
  <<"API request failed: ">> \o reply.status \o <<" ">> \o reply.statusText

\* variant of the code: the error field is looked at before the message field
ErrorMessageErrorFirst(reply) ==
  LET body == reply.body IN
  CASE body.kind = "object" ->
         LET errorJson == body.obj[1] IN
         IF Truthy(errorJson, "error") THEN errorJson.error
         ELSE IF Truthy(errorJson, "message") THEN errorJson.message
         ELSE IF Truthy(errorJson, "details") THEN errorJson.details
         ELSE DefaultErrorMessage(reply)
    [] body.kind = "string" -> body.text
    [] body.kind = "array" -> DefaultErrorMessage(reply)
    [] body.kind = "null" -> DefaultErrorMessage(reply) \o <<" - ", "null">>
    [] body.kind = "text" ->
         IF body.text # <<>> THEN DefaultErrorMessage(reply) \o <<" - ">> \o body.text
         ELSE DefaultErrorMessage(reply)

\* the message of the Error thrown for a non-2xx response
ErrorMessage(reply) ==
  LET body == reply.body IN
  CASE body.kind = "object" ->
         LET errorJson == body.obj[1] IN
         IF Truthy(errorJson, "message") THEN errorJson.message
         ELSE IF Truthy(errorJson, "error") THEN errorJson.error
         ELSE IF Truthy(errorJson, "details") THEN errorJson.details
         ELSE DefaultErrorMessage(reply)
    [] body.kind = "string" -> body.text
    [] body.kind = "array" -> DefaultErrorMessage(reply)
    [] body.kind = "null" -> DefaultErrorMessage(reply) \o <<" - ", "null">>
    [] body.kind = "text" ->
         IF body.text # <<>> THEN DefaultErrorMessage(reply) \o <<" - ">> \o body.text
         ELSE DefaultErrorMessage(reply)

Threw(msg) == [threw |-> TRUE, msg |-> msg, kind |-> "none", value |-> None]
Returned(v) == [threw |-> FALSE, msg |-> <<>>, kind |-> "object", value |-> Some(v)]
ReturnedArray(v) == [threw |-> FALSE, msg |-> <<>>, kind |-> "array", value |-> Some(v)]

\* variant of the code: the body of every 2xx response is parsed as JSON
makeRequestAlwaysJson(reply) ==
  IF reply.net # None THEN Threw(reply.net[1])
  ELSE IF ~ResponseOk(reply) THEN Threw(ErrorMessage(reply))
  ELSE CASE reply.body.kind = "object" -> Returned(reply.body.obj[1])
         [] reply.body.kind = "array" -> ReturnedArray(reply.body.obj[1])
         [] reply.body.kind = "string" ->
              [threw |-> FALSE, msg |-> <<>>, kind |-> "string",
               value |-> Some(reply.body.text)]
         [] reply.body.kind = "null" ->
              [threw |-> FALSE, msg |-> <<>>, kind |-> "null", value |-> None]
         [] reply.body.kind = "text" -> Threw(<<"Unexpected token in JSON">>)

\* makeRequest: [threw, msg, kind, value]; kind tells the type of the value
\* that response.json() gave: "object", "array", "string" or "null"; a body
\* that is not JSON makes response.json() throw
makeRequest(reply) ==
  IF reply.net # None THEN Threw(reply.net[1])
  ELSE IF ~ResponseOk(reply) THEN Threw(ErrorMessage(reply))
  ELSE IF reply.json
       THEN CASE reply.body.kind = "object" -> Returned(reply.body.obj[1])
              [] reply.body.kind = "array" -> ReturnedArray(reply.body.obj[1])
              [] reply.body.kind = "string" ->
                   [threw |-> FALSE, msg |-> <<>>, kind |-> "string",
                    value |-> Some(reply.body.text)]
              [] reply.body.kind = "null" ->
                   [threw |-> FALSE, msg |-> <<>>, kind |-> "null", value |-> None]
              [] reply.body.kind = "text" -> Threw(<<"Unexpected token in JSON">>)
       ELSE Returned([success |-> TRUE])

(***************************************************************************)
(* RelayApiService: getChains, indexTransaction, getRequestsByTxHash,      *)
(* getRequestStatus                                                        *)
(***************************************************************************)
\* getChains: the parsed body, as it is, typed as the chain array
getChains(reply) == makeRequest(reply)

\* the argument checks of indexTransaction: Some(message) when it throws
\* before sending
indexTransactionInvalid(request) ==
  IF request.hash = <<>> \/ Len(request.hash) < 2
     \/ SubSeq(request.hash, 1, 2) # <<"0", "x">> \/ Len(request.hash) # 66
  THEN Some(<<"Invalid hash format: ">> \o request.hash
            \o <<". Expected 0x followed by 64 hex characters.">>)
  ELSE IF request.chainId = 0
  THEN Some(<<"Invalid chainId: ", "0", ". Expected a valid integer.">>)
  ELSE None

indexTransaction(request, reply) ==
  IF indexTransactionInvalid(request) # None THEN Threw(indexTransactionInvalid(request)[1])
  ELSE LET r == makeRequest(reply) IN
       IF r.threw THEN r ELSE Returned([success |-> TRUE])

\* response.requests || []: reading a property of null throws a TypeError
getRequestsByTxHash(reply) ==
  LET r == makeRequest(reply) IN
  IF r.threw THEN r
  ELSE IF r.kind = "null"
  THEN Threw(<<"Cannot read properties of null (reading 'requests')">>)
  ELSE IF r.kind = "object" /\ Has(r.value[1], "requests") THEN ReturnedArray(r.value[1].requests)
  ELSE ReturnedArray(<<>>)

\* variant of the code: the fields of the response are spread last
getRequestStatusBodyLast(requestId, reply) ==
  LET r == makeRequest(reply) IN
  IF r.threw THEN r
  ELSE IF r.kind = "object" THEN Returned(Spread([requestId |-> requestId], r.value[1]))
  ELSE Returned([requestId |-> requestId])

\* { ...response, requestId }: a response that is not an object (null, a
\* string, an array) spreads no named field
getRequestStatus(requestId, reply) ==
  LET r == makeRequest(reply) IN
  IF r.threw THEN r
  ELSE IF r.kind = "object" THEN Returned(Spread(r.value[1], [requestId |-> requestId]))
  ELSE Returned([requestId |-> requestId])

(***************************************************************************)
(* useTransactionMonitoring: checkTransactionStatus                        *)
(*                                                                         *)
(* The check cycle awaits two upstream calls, so it is two steps.          *)
(***************************************************************************)
\* latestRequest?.id is truthy
HasId(request) == Has(request, "id") /\ request.id # ""

\* variant of the code: the last record of the list is taken as the latest
checkRequestsLast(reply) ==
  LET r == getRequestsByTxHash(reply) IN
  IF r.threw THEN [next |-> "threw", msg |-> r.msg, requestId |-> ""]
  ELSE LET requests == r.value[1] IN
       IF Len(requests) = 0 THEN [next |-> "null", msg |-> <<>>, requestId |-> ""]
       ELSE IF ~HasId(requests[Len(requests)])
       THEN [next |-> "null", msg |-> <<>>, requestId |-> ""]
       ELSE [next |-> "status", msg |-> <<>>, requestId |-> requests[Len(requests)].id]

\* after getRequestsByTxHash has settled: "threw" (msg), "null" (return
\* null) or "status" (go on to getRequestStatus with requestId)
checkRequests(reply) ==
  LET r == getRequestsByTxHash(reply) IN
  IF r.threw THEN [next |-> "threw", msg |-> r.msg, requestId |-> ""]
  ELSE LET requests == r.value[1] IN
       IF Len(requests) = 0 THEN [next |-> "null", msg |-> <<>>, requestId |-> ""]
       ELSE IF ~HasId(requests[1]) THEN [next |-> "null", msg |-> <<>>, requestId |-> ""]
       ELSE [next |-> "status", msg |-> <<>>, requestId |-> requests[1].id]

\* after getRequestStatus has settled: "threw" (msg) or "details"
checkStatus(requestId, reply) ==
  LET r == getRequestStatus(requestId, reply) IN
  IF r.threw THEN [next |-> "threw", msg |-> r.msg, details |-> None]
  ELSE [next |-> "details", msg |-> <<>>, details |-> r.value]

(***************************************************************************)
(* The environment: what the user types and what the upstream answers.     *)
(***************************************************************************)
HashOf(ch) == <<"0", "x">> \o [i \in 1..HexLen |-> ch]
HashA == HashOf("a")
HashB == HashOf("B")

UrlA == <<"https://", "etherscan.io", "/tx/">> \o HashA
UrlB == <<"https://", "nova", ".", "arbiscan.io", "/tx/">> \o HashB
BareA == <<" ">> \o HashA
JunkUrl == <<"https://", "example.com", "/tx/">> \o HashA

StartInputs == {UrlA, UrlB, BareA, JunkUrl}

\* What a user may type, by the way it is built.
\* A hash between spaces: the input and the hash it is built around
Spaces(n) == [i \in 1..n |-> " "]

BareInputs ==
  {[url |-> Spaces(l) \o h \o Spaces(r), hash |-> h] :
     h \in {HashA, HashB}, l \in 0..MaxSpaces, r \in 0..MaxSpaces}

\* the transaction page of the n-th host of the static table
HostUrl(n) == <<"https://">> \o staticMappings[n].domain \o <<"/tx/">> \o HashA

\* explorer links: the pages of the table's hosts, and pages with text after
\* the hash, with another scheme and subdomain, inside a sentence
ExplorerInputs ==
  {[url |-> HostUrl(n), hash |-> HashA] : n \in 1..Len(staticMappings)}
  \cup {[url |-> UrlB, hash |-> HashB],
        [url |-> UrlA \o <<"a", "b">>, hash |-> HashA],
        [url |-> UrlB \o <<"?", "tab", "=", "logs">>, hash |-> HashB],
        [url |-> <<"http://", "www", ".", "bscscan.com", "/tx/">> \o HashB, hash |-> HashB],
        [url |-> <<" ", "see", " ">> \o UrlA \o <<" ">>, hash |-> HashA]}

\* inputs that are neither: hashes of the wrong length, prefix or alphabet,
\* a hash inside other text, unknown hosts, other pages of known hosts
OtherInputs ==
  {<<>>,
   <<" ">>,
   SubSeq(HashA, 1, HexLen + 1),
   HashA \o <<"a">>,
   <<"0", "X">> \o SubSeq(HashA, 3, HexLen + 2),
   <<"0", "x">> \o [i \in 1..HexLen |-> "g"],
   SubSeq(HashA, 3, HexLen + 2),
   <<"tx", " ">> \o HashA,
   HashA \o <<" ">> \o HashB,
   JunkUrl,
   <<"https://", "etherscan.io", "/address/">> \o HashA,
   <<"https://", "etherscan.io", "/tx/">> \o SubSeq(HashA, 1, HexLen + 1),
   <<"https://", "etherscan.io", "/tx/", " ">> \o HashA,
   <<"https://", "etherscan.com", "/tx/">> \o HashA,
   <<"https://", "blockscout.com", "/chain/", "1", "/", "tx/">> \o HashA}

\* arguments of indexTransaction: hashes of the right and of a wrong shape,
\* chain ids of every sign
IndexRequests ==
  [hash : {HashA, HashB,
           <<>>,
           <<"0", "x">>,
           SubSeq(HashA, 1, HexLen + 1),
           HashA \o <<"a">>,
           SubSeq(HashA, 3, HexLen + 2) \o <<"a", "a">>,
           <<"0", "X">> \o SubSeq(HashA, 3, HexLen + 2),
           <<"0", "x">> \o [i \in 1..HexLen |-> "g"],
           <<"0", "x", " ">> \o SubSeq(HashA, 4, HexLen + 2)},
   chainId : (0 - MaxChainId)..MaxChainId]

ResolverInputs ==
  {in.url : in \in BareInputs} \cup {in.url : in \in ExplorerInputs} \cup OtherInputs

AllInputs == StartInputs \cup ResolverInputs

\* the resolver applied to every input, computed once
Resolved ==
  [url \in AllInputs |->
     [txHash |-> extractTxHashFromUrl(url),
      needsChainList |-> NeedsChainList(url),
      chainId |-> getChainIdFromUrlStatic(url)]]

TextBody(t) == [kind |-> "text", text |-> t, obj |-> None]
StringBody(t) == [kind |-> "string", text |-> t, obj |-> None]
NullBody == [kind |-> "null", text |-> <<>>, obj |-> None]
ObjectBody(o) == [kind |-> "object", text |-> <<>>, obj |-> Some(o)]
ArrayBody(a) == [kind |-> "array", text |-> <<>>, obj |-> Some(a)]

HttpReply(status, statusText, json, body) ==
  [net |-> None, status |-> status, statusText |-> statusText, json |-> json, body |-> body]
NetworkFailure(msg) ==
  [net |-> Some(msg), status |-> <<>>, statusText |-> <<>>, json |-> FALSE, body |-> TextBody(<<>>)]

Ok(json, body) == HttpReply(<<"2", "0", "0">>, <<"OK">>, json, body)
Http500(body) == HttpReply(<<"5", "0", "0">>, <<"Internal Server Error">>, FALSE, body)
Http404(body) == HttpReply(<<"4", "0", "4">>, <<"Not Found">>, FALSE, body)
Http400(body) == HttpReply(<<"4", "0", "0">>, <<"Bad Request">>, FALSE, body)

CoreIndexReplies == { Ok(FALSE, TextBody(<<>>)), Http500(TextBody(<<>>)) }

IndexReplies ==
  { Ok(FALSE, TextBody(<<>>)),
    Http500(TextBody(<<>>)),
    Http500(TextBody(<<"upstream down">>)),
    Http500(ObjectBody([message |-> <<"indexing failed">>])),
    Http500(ObjectBody([error |-> <<"boom">>])),
    Http500(ObjectBody([details |-> <<"no indexer">>])),
    Http500(StringBody(<<>>)),
    Http404(TextBody(<<>>)),
    Http400(ObjectBody([code |-> <<"E1">>])),
    NetworkFailure(<<"Failed to fetch">>),
    NetworkFailure(<<"Network", "Error when attempting to fetch resource.">>) }

QuietIndexReplies == { Ok(FALSE, TextBody(<<>>)) }

CoreRequestsReplies ==
  { Ok(TRUE, ObjectBody([requests |-> <<>>])),
    Ok(TRUE, ObjectBody([requests |-> << [status |-> "pending"] >>])),
    Ok(TRUE, ObjectBody([requests |-> << [id |-> "r1", status |-> "pending"] >>])),
    Http500(TextBody(<<>>)) }

\* the replies of the index endpoint with HTTP status 500, and success
Index500Replies ==
  { r \in IndexReplies : r.net = None /\ (ResponseOk(r) \/ r.status = <<"5", "0", "0">>) }

RequestsReplies ==
  { Ok(TRUE, ObjectBody([requests |-> <<>>])),
    Ok(FALSE, TextBody(<<>>)),
    Ok(TRUE, ObjectBody([requests |-> << [status |-> "pending"] >>])),
    Ok(TRUE, ObjectBody([requests |-> << [id |-> "r1", status |-> "pending"] >>])),
    Ok(TRUE, ObjectBody([requests |-> << [id |-> "r2", status |-> "success"],
                                         [id |-> "r1", status |-> "pending"] >>])),
    Http500(TextBody(<<>>)),
    NetworkFailure(<<"Failed to fetch">>) }

EmptyRequestsReplies == { Ok(TRUE, ObjectBody([requests |-> <<>>])) }

CoreStatusReplies ==
  { Ok(TRUE, ObjectBody([status |-> "pending"])),
    Ok(TRUE, ObjectBody([status |-> "success", requestId |-> "r9"])),
    Http500(TextBody(<<>>)) }

StatusReplies ==
  { Ok(TRUE, ObjectBody([status |-> "pending"])),
    Ok(TRUE, ObjectBody([status |-> "success"])),
    Ok(TRUE, ObjectBody([status |-> "success", requestId |-> "r9"])),
    Http500(TextBody(<<>>)) }

\* the bodies of a refused request: JSON objects with any of the fields
\* message, error and details, each filled or the empty string, or with none
\* of them; a JSON string, null and array; text that is not JSON
ErrorObjects ==
  LET m == {<<"indexing failed">>, <<>>}
      e == {<<"boom">>, <<>>}
      d == {<<"no indexer">>, <<>>}
  IN [message : m] \cup [error : e] \cup [details : d]
     \cup [message : m, error : e] \cup [message : m, details : d]
     \cup [error : e, details : d] \cup [message : m, error : e, details : d]
     \cup {[code |-> <<"E1">>]}

ErrorBodies ==
  {ObjectBody(o) : o \in ErrorObjects}
  \cup {TextBody(<<>>), TextBody(<<"upstream down">>), StringBody(<<"rate limited">>),
        StringBody(<<>>), NullBody, ArrayBody(<<>>)}

ErrorReplies == {Http500(b) : b \in ErrorBodies} \cup {Http404(b) : b \in ErrorBodies}

\* the request lookup answers with records of two ids
IdRequestsReplies ==
  { Ok(TRUE, ObjectBody([requests |-> << [id |-> "r1", status |-> "pending"] >>])),
    Ok(TRUE, ObjectBody([requests |-> << [id |-> "r2", status |-> "success"],
                                         [id |-> "r1", status |-> "pending"] >>])) }

\* the status endpoint answers with every kind of body: objects without and
\* with a requestId of their own, null, a string, an array, a body that is
\* not JSON, and a refusal
AnyStatusReplies ==
  { Ok(TRUE, ObjectBody([status |-> "pending"])),
    Ok(TRUE, ObjectBody([status |-> "success"])),
    Ok(TRUE, ObjectBody([status |-> "refund", requestId |-> "r9"])),
    Ok(TRUE, ObjectBody([requestId |-> ""])),
    Ok(TRUE, NullBody),
    Ok(TRUE, StringBody(<<"ok">>)),
    Ok(TRUE, ArrayBody(<<>>)),
    Ok(FALSE, TextBody(<<"ok">>)),
    Http500(TextBody(<<>>)) }

\* the request lookup answers 200 without any request record: an empty or
\* missing requests field, a body that is not an object, a response that is
\* not declared as JSON, and a response declared as JSON whose body is null,
\* empty or not JSON
NoRecordReplies ==
  { Ok(TRUE, ObjectBody([requests |-> <<>>])),
    Ok(TRUE, ObjectBody([success |-> TRUE])),
    Ok(TRUE, ArrayBody(<<>>)),
    Ok(TRUE, StringBody(<<"ok">>)),
    Ok(FALSE, TextBody(<<>>)),
    Ok(FALSE, TextBody(<<"OK">>)),
    Ok(TRUE, NullBody),
    Ok(TRUE, TextBody(<<>>)),
    Ok(TRUE, TextBody(<<"OK">>)) }

\* the lists of records the request lookup may answer with: empty, a first
\* record without an id or with an empty id (alone, and before a record
\* that has one), a first record with an id (alone, and before another)
CycleRequestLists ==
  { <<>>,
    << [status |-> "pending"] >>,
    << [id |-> "", status |-> "pending"] >>,
    << [status |-> "pending"], [id |-> "r1", status |-> "pending"] >>,
    << [id |-> "r1", status |-> "pending"] >>,
    << [id |-> "r2", status |-> "success"], [id |-> "r1", status |-> "pending"] >> }

CycleRequestsReplies == {Ok(TRUE, ObjectBody([requests |-> l])) : l \in CycleRequestLists}

\* the status endpoint answers with details or refuses
CycleStatusReplies ==
  { Ok(TRUE, ObjectBody([status |-> "success", requestId |-> "r9"])),
    Http500(TextBody(<<>>)) }

ChainList ==
  << [id |-> <<"1">>, name |-> <<"Ethereum">>],
     [id |-> <<"4", "2", "1", "6", "1">>, name |-> <<"Arbitrum", " ", "One">>] >>

ChainsReplies ==
  { Ok(TRUE, ArrayBody(ChainList)),
    Ok(TRUE, ObjectBody([chains |-> ChainList])),
    Http500(TextBody(<<>>)) }

\* the chain-list part of the resolver applied to every input and reply
ResolvedApi ==
  [url \in AllInputs |->
     [reply \in ChainsReplies |-> getChainIdFromUrlApi(url, getChains(reply))]]

(***************************************************************************)
(* useTransactionMonitoring: the state of the hook                         *)
(***************************************************************************)
VARIABLES
  monitoringState, \* useKV 'monitoring-state': None or Some(MonitoringState)
  isLoading,       \* useState(false)
  error,           \* useState(null): None or Some(message)
  pollCount,       \* useState(0)
  timer,           \* the interval armed by the polling effect: None or
                   \* Some([hash, interval]), hash the captured transactionHash
  calls,           \* bag of the asynchronous invocations that are suspended
                   \* at an await: [kind, pc, hash, url, requestId, chainId]
  now,             \* the wall clock read by new Date()
  ticksFired,      \* history: timer ticks fired since the session was created
  stopped,         \* history: stopMonitoring was called and startMonitoring
                   \* has not been called since
  event            \* history: the last step, [op, outcome, polls, active]:
                   \* the action, how it ended, and pollCount and whether an
                   \* active session existed before it

vars == <<monitoringState, isLoading, error, pollCount, timer, calls, now,
          ticksFired, stopped, event>>

MsgInvalidUrl == <<"Invalid transaction URL. Please provide a valid blockchain explorer URL (e.g., Etherscan, Polygonscan, Arbiscan, HyperEVM, etc.)">>
MsgNoChain == <<"Could not determine chain ID from URL. Please use a supported blockchain explorer (Etherscan, Arbiscan, Polygonscan, etc.) or check that the URL is correct.">>
MsgNotFound == <<"Transaction not found. Please ensure the transaction URL is correct and the transaction exists on the blockchain.">>
MsgBadRequest == <<"Invalid request. Please check that the transaction URL is from a supported blockchain explorer.">>
MsgUnavailable == <<"Relay service is temporarily unavailable. Please try again in a few minutes.">>
MsgNetwork == <<"Network error. Please check your internet connection and try again.">>

\* the errorMessage computed by the catch block of startMonitoring
StartErrorMessage(msg) ==
  IF Includes(msg, <<"4", "0", "4">>) THEN MsgNotFound
  ELSE IF Includes(msg, <<"4", "0", "0">>) THEN MsgBadRequest
  ELSE IF Includes(msg, <<"5", "0", "0">>) THEN MsgUnavailable
  ELSE IF Includes(msg, <<"Network">>) THEN MsgNetwork
  ELSE msg

\* variant of the code: the effect arms the interval for every session
PollingEffectIgnoresActive(ms, count) ==
  IF ms = None THEN None
  ELSE IF ~Has(ms[1], "transactionHash") THEN None
  ELSE IF ms[1].transactionHash = <<>> THEN None
  ELSE Some([hash |-> ms[1].transactionHash,
             interval |-> IF count < MAX_FAST_POLLS THEN POLLING_INTERVAL
                          ELSE SLOW_POLLING_INTERVAL])

\* variant of the code: the effect gives up after MAX_FAST_POLLS attempts
PollingEffectGivesUp(ms, count) ==
  IF ms = None THEN None
  ELSE IF ~Has(ms[1], "isMonitoring") \/ ~Has(ms[1], "transactionHash") THEN None
  ELSE IF ~ms[1].isMonitoring \/ ms[1].transactionHash = <<>> THEN None
  ELSE IF count >= MAX_FAST_POLLS THEN None
  ELSE Some([hash |-> ms[1].transactionHash, interval |-> POLLING_INTERVAL])

\* the polling effect: it is re-run whenever isMonitoring, transactionHash
\* or pollCount change, its cleanup clears the interval it armed before
PollingEffect(ms, count) ==
  IF ms = None THEN None
  ELSE IF ~Has(ms[1], "isMonitoring") \/ ~Has(ms[1], "transactionHash") THEN None
  ELSE IF ~ms[1].isMonitoring \/ ms[1].transactionHash = <<>> THEN None
  ELSE Some([hash |-> ms[1].transactionHash,
             interval |-> IF count < MAX_FAST_POLLS THEN POLLING_INTERVAL
                          ELSE SLOW_POLLING_INTERVAL])

Call(kind, pc, hash, url, requestId) ==
  [kind |-> kind, pc |-> pc, hash |-> hash, url |-> url, requestId |-> requestId,
   chainId |-> 0]

\* startMonitoring suspended at indexTransaction, whose POST body carries
\* txHash and chainId
IndexCall(request) ==
  [Call("start", "index", request.hash, <<>>, "") EXCEPT !.chainId = request.chainId]

Add(bag, c) == bag (+) SetToBag({c})
Remove(bag, c) == bag (-) SetToBag({c})
InFlight == BagToSet(calls)
CanSuspend == BagCardinality(calls) < MaxCalls

\* monitoringState?.isMonitoring
IsActive(ms) == ms # None /\ Has(ms[1], "isMonitoring") /\ ms[1].isMonitoring

\* monitoringState?.transactionHash is truthy
HasHash(ms) == ms # None /\ Has(ms[1], "transactionHash") /\ ms[1].transactionHash # <<>>

Event(op, outcome) ==
  [op |-> op, outcome |-> outcome, polls |-> pollCount, active |-> IsActive(monitoringState)]

\* variant of the code: the updater spreads the fields without testing prev
UpdateSessionUnguarded(ms, fields) ==
  IF ms # None THEN Some(Spread(ms[1], fields)) ELSE Some(fields)

\* variant of the code: the updater replaces the session by the fields
UpdateSessionReplaces(ms, fields) == IF ms # None THEN Some(fields) ELSE None

\* setMonitoringState(prev => prev ? { ...prev, ...fields } : null)
UpdateSession(ms, fields) == IF ms # None THEN Some(Spread(ms[1], fields)) ELSE None

\* variant of the code: the fold leaves isMonitoring as it is
FoldKeepsMonitoring(details) ==
  [requestId |-> details.requestId, transactionDetails |-> details]

\* variant of the code: the fold sets the requestId without the details
FoldOnlyRequestId(details) ==
  [requestId |-> details.requestId, isMonitoring |-> FALSE]

\* the fields folded in when a check cycle returns details
Fold(details) ==
  [requestId |-> details.requestId, transactionDetails |-> details, isMonitoring |-> FALSE]

Init ==
  /\ monitoringState = None
  /\ isLoading = FALSE
  /\ error = None
  /\ pollCount = 0
  /\ timer = None
  /\ calls = EmptyBag
  /\ now = 0
  /\ ticksFired = 0
  /\ stopped = FALSE
  /\ event = [op |-> "init", outcome |-> "-", polls |-> 0, active |-> FALSE]

\* time passes
AdvanceClock ==
  /\ now < MaxClock
  /\ now' = now + 1
  /\ event' = Event("advance", "-")
  /\ UNCHANGED <<monitoringState, isLoading, error, pollCount, timer, calls,
                 ticksFired, stopped>>

(***************************************************************************)
(* startMonitoring                                                         *)
(***************************************************************************)
\* variant of the code: the catch block does not set the error
StartCatchNoError(op, outcome, msg, rest) ==
  /\ error' = error
  /\ monitoringState' = None
  /\ pollCount' = 0
  /\ isLoading' = FALSE
  /\ timer' = PollingEffect(None, 0)
  /\ calls' = rest
  /\ event' = Event(op, outcome)
  /\ UNCHANGED <<now, ticksFired>>

\* variant of the code: the catch block does not discard the session
StartCatchKeepsSession(op, outcome, msg, rest) ==
  /\ error' = Some(StartErrorMessage(msg))
  /\ monitoringState' = monitoringState
  /\ pollCount' = 0
  /\ isLoading' = FALSE
  /\ timer' = PollingEffect(monitoringState, 0)
  /\ calls' = rest
  /\ event' = Event(op, outcome)
  /\ UNCHANGED <<now, ticksFired>>

\* the catch and finally blocks of startMonitoring, rest the other calls
StartCatch(op, outcome, msg, rest) ==
  /\ error' = Some(StartErrorMessage(msg))
  /\ monitoringState' = None
  /\ pollCount' = 0
  /\ isLoading' = FALSE
  /\ timer' = PollingEffect(None, 0)
  /\ calls' = rest
  /\ event' = Event(op, outcome)
  /\ UNCHANGED <<now, ticksFired>>

\* variant of the code: a new session does not retire the timer armed before
StartProceedKeepsTimer(op, hash, chainId, rest, loading, err, count) ==
  IF chainId = None \/ chainId = Some(0)
  THEN StartCatch(op, "nochain", MsgNoChain, rest)
  ELSE LET request == [hash |-> hash, chainId |-> chainId[1]] IN
       IF indexTransactionInvalid(request) # None
       THEN StartCatch(op, "failed", indexTransactionInvalid(request)[1], rest)
       ELSE /\ monitoringState' = Some([isMonitoring |-> TRUE, transactionHash |-> hash,
                                        lastChecked |-> now])
            /\ isLoading' = loading
            /\ error' = err
            /\ pollCount' = count
            /\ timer' = IF timer # None THEN timer
                        ELSE PollingEffect(monitoringState', pollCount')
            /\ calls' = Add(rest, IndexCall(request))
            /\ ticksFired' = 0
            /\ event' = Event(op, "session")
            /\ UNCHANGED now

\* from the chain id test to the await of indexTransaction; loading, err and
\* count are the flags and the poll count as the part of startMonitoring
\* before the chain id test left them
StartProceed(op, hash, chainId, rest, loading, err, count) ==
  IF chainId = None \/ chainId = Some(0)
  THEN StartCatch(op, "nochain", MsgNoChain, rest)
  ELSE LET request == [hash |-> hash, chainId |-> chainId[1]] IN
       IF indexTransactionInvalid(request) # None
       THEN StartCatch(op, "failed", indexTransactionInvalid(request)[1], rest)
       ELSE /\ monitoringState' = Some([isMonitoring |-> TRUE, transactionHash |-> hash,
                                        lastChecked |-> now])
            /\ isLoading' = loading
            /\ error' = err
            /\ pollCount' = count
            /\ timer' = PollingEffect(monitoringState', pollCount')
            /\ calls' = Add(rest, IndexCall(request))
            /\ ticksFired' = 0
            /\ event' = Event(op, "session")
            /\ UNCHANGED now

\* startMonitoring(url), up to its first await of the network
StartCall(url) ==
  /\ stopped' = FALSE
  /\ LET txHash == Resolved[url].txHash IN
     IF txHash = None
     THEN StartCatch("StartCall", "nohash", MsgInvalidUrl, calls)
     ELSE IF Resolved[url].needsChainList
     THEN /\ CanSuspend
          /\ isLoading' = TRUE
          /\ error' = None
          /\ pollCount' = 0
          /\ timer' = PollingEffect(monitoringState, pollCount')
          /\ calls' = Add(calls, Call("start", "chains", txHash[1], url, ""))
          /\ event' = Event("StartCall", "chains")
          /\ UNCHANGED <<monitoringState, now, ticksFired>>
     ELSE /\ CanSuspend
          /\ StartProceed("StartCall", txHash[1], Resolved[url].chainId, calls, TRUE, None, 0)

\* getChains settles inside getChainIdFromUrl
StartChainsDone(c, reply) ==
  /\ c \in InFlight /\ c.kind = "start" /\ c.pc = "chains"
  /\ StartProceed("StartChainsDone", c.hash, ResolvedApi[c.url][reply], Remove(calls, c),
                  isLoading, error, pollCount)
  /\ UNCHANGED stopped

\* indexTransaction settles
StartIndexDone(c, reply) ==
  /\ c \in InFlight /\ c.kind = "start" /\ c.pc = "index"
  /\ LET r == makeRequest(reply) IN
     IF r.threw
     THEN StartCatch("StartIndexDone", "failed", r.msg, Remove(calls, c))
     ELSE /\ calls' = Add(Remove(calls, c), Call("start", "requests", c.hash, <<>>, ""))
          /\ event' = Event("StartIndexDone", "ok")
          /\ UNCHANGED <<monitoringState, isLoading, error, pollCount, timer, now, ticksFired>>
  /\ UNCHANGED stopped

\* variant of the code: the immediate check's result is not folded in
StartFinishDropsResult(op, c, freshDetails) ==
  /\ monitoringState' = monitoringState
  /\ isLoading' = FALSE
  /\ timer' = PollingEffect(monitoringState', pollCount)
  /\ calls' = Remove(calls, c)
  /\ event' = Event(op, IF freshDetails # None THEN "result" ELSE "null")
  /\ UNCHANGED <<error, pollCount, now, ticksFired>>

\* the end of startMonitoring once its immediate check has returned
StartFinish(op, c, freshDetails) ==
  /\ monitoringState' = IF freshDetails # None
                        THEN UpdateSession(monitoringState, Fold(freshDetails[1]))
                        ELSE monitoringState
  /\ isLoading' = FALSE
  /\ timer' = PollingEffect(monitoringState', pollCount)
  /\ calls' = Remove(calls, c)
  /\ event' = Event(op, IF freshDetails # None THEN "result" ELSE "null")
  /\ UNCHANGED <<error, pollCount, now, ticksFired>>

\* the immediate check: getRequestsByTxHash settles
StartRequestsDone(c, reply) ==
  /\ c \in InFlight /\ c.kind = "start" /\ c.pc = "requests"
  /\ LET r == checkRequests(reply) IN
     CASE r.next = "threw" -> StartCatch("StartRequestsDone", "threw", r.msg, Remove(calls, c))
       [] r.next = "null" -> StartFinish("StartRequestsDone", c, None)
       [] r.next = "status" ->
            /\ calls' = Add(Remove(calls, c), Call("start", "status", c.hash, <<>>, r.requestId))
            /\ event' = Event("StartRequestsDone", "pending")
            /\ UNCHANGED <<monitoringState, isLoading, error, pollCount, timer, now, ticksFired>>
  /\ UNCHANGED stopped

\* the immediate check: getRequestStatus settles
StartStatusDone(c, reply) ==
  /\ c \in InFlight /\ c.kind = "start" /\ c.pc = "status"
  /\ LET r == checkStatus(c.requestId, reply) IN
     IF r.next = "threw"
     THEN StartCatch("StartStatusDone", "threw", r.msg, Remove(calls, c))
     ELSE StartFinish("StartStatusDone", c, r.details)
  /\ UNCHANGED stopped

(***************************************************************************)
(* The auto-polling effect: the interval callback                          *)
(***************************************************************************)
\* the interval fires: the callback starts a check cycle for the hash it
\* captured; cap bounds the ticks fired for one session
TickFire(cap) ==
  /\ timer # None
  /\ ticksFired < cap
  /\ CanSuspend
  /\ calls' = Add(calls, Call("tick", "requests", timer[1].hash, <<>>, ""))
  /\ ticksFired' = ticksFired + 1
  /\ event' = Event("TickFire", "pending")
  /\ UNCHANGED <<monitoringState, isLoading, error, pollCount, timer, now, stopped>>

\* variant of the code: the catch block of the callback does not count
TickCatchNoCount(op, c) ==
  /\ pollCount' = pollCount
  /\ timer' = PollingEffect(monitoringState, pollCount')
  /\ calls' = Remove(calls, c)
  /\ event' = Event(op, "threw")
  /\ UNCHANGED <<monitoringState, isLoading, error, now, ticksFired, stopped>>

\* the catch block of the callback
TickCatch(op, c) ==
  /\ pollCount' = pollCount + 1
  /\ timer' = PollingEffect(monitoringState, pollCount')
  /\ calls' = Remove(calls, c)
  /\ event' = Event(op, "threw")
  /\ UNCHANGED <<monitoringState, isLoading, error, now, ticksFired, stopped>>

\* variant of the code: an empty tick counts but does not stamp lastChecked
TickRequestsDoneNoStamp(c, reply) ==
  /\ c \in InFlight /\ c.kind = "tick" /\ c.pc = "requests"
  /\ LET r == checkRequests(reply) IN
     CASE r.next = "threw" -> TickCatch("TickRequestsDone", c)
       [] r.next = "null" ->
            /\ monitoringState' = monitoringState
            /\ pollCount' = pollCount + 1
            /\ timer' = PollingEffect(monitoringState', pollCount')
            /\ calls' = Remove(calls, c)
            /\ event' = Event("TickRequestsDone", "null")
            /\ UNCHANGED <<isLoading, error, now, ticksFired, stopped>>
       [] r.next = "status" ->
            /\ calls' = Add(Remove(calls, c), Call("tick", "status", c.hash, <<>>, r.requestId))
            /\ event' = Event("TickRequestsDone", "pending")
            /\ UNCHANGED <<monitoringState, isLoading, error, pollCount, timer, now,
                           ticksFired, stopped>>

\* a tick's check cycle: getRequestsByTxHash settles
TickRequestsDone(c, reply) ==
  /\ c \in InFlight /\ c.kind = "tick" /\ c.pc = "requests"
  /\ LET r == checkRequests(reply) IN
     CASE r.next = "threw" -> TickCatch("TickRequestsDone", c)
       [] r.next = "null" ->
            /\ monitoringState' = UpdateSession(monitoringState, [lastChecked |-> now])
            /\ pollCount' = pollCount + 1
            /\ timer' = PollingEffect(monitoringState', pollCount')
            /\ calls' = Remove(calls, c)
            /\ event' = Event("TickRequestsDone", "null")
            /\ UNCHANGED <<isLoading, error, now, ticksFired, stopped>>
       [] r.next = "status" ->
            /\ calls' = Add(Remove(calls, c), Call("tick", "status", c.hash, <<>>, r.requestId))
            /\ event' = Event("TickRequestsDone", "pending")
            /\ UNCHANGED <<monitoringState, isLoading, error, pollCount, timer, now,
                           ticksFired, stopped>>

\* variant of the code: a tick that obtains a result does not reset the poll count
TickStatusDoneNoReset(c, reply) ==
  /\ c \in InFlight /\ c.kind = "tick" /\ c.pc = "status"
  /\ LET r == checkStatus(c.requestId, reply) IN
     IF r.next = "threw" THEN TickCatch("TickStatusDone", c)
     ELSE /\ monitoringState' = UpdateSession(monitoringState,
                                   Spread(Fold(r.details[1]), [lastChecked |-> now]))
          /\ pollCount' = pollCount
          /\ timer' = PollingEffect(monitoringState', pollCount')
          /\ calls' = Remove(calls, c)
          /\ event' = Event("TickStatusDone", "result")
          /\ UNCHANGED <<isLoading, error, now, ticksFired, stopped>>

\* a tick's check cycle: getRequestStatus settles
TickStatusDone(c, reply) ==
  /\ c \in InFlight /\ c.kind = "tick" /\ c.pc = "status"
  /\ LET r == checkStatus(c.requestId, reply) IN
     IF r.next = "threw" THEN TickCatch("TickStatusDone", c)
     ELSE /\ monitoringState' = UpdateSession(monitoringState,
                                   Spread(Fold(r.details[1]), [lastChecked |-> now]))
          /\ pollCount' = 0
          /\ timer' = PollingEffect(monitoringState', pollCount')
          /\ calls' = Remove(calls, c)
          /\ event' = Event("TickStatusDone", "result")
          /\ UNCHANGED <<isLoading, error, now, ticksFired, stopped>>

(***************************************************************************)
(* manualRefresh                                                           *)
(***************************************************************************)
RefreshCall ==
  IF ~HasHash(monitoringState)
  THEN /\ event' = Event("RefreshCall", "noop")
       /\ UNCHANGED <<monitoringState, isLoading, error, pollCount, timer, calls, now,
                      ticksFired, stopped>>
  ELSE /\ CanSuspend
       /\ isLoading' = TRUE
       /\ error' = None
       /\ calls' = Add(calls, Call("refresh", "requests", monitoringState[1].transactionHash,
                                   <<>>, ""))
       /\ event' = Event("RefreshCall", "pending")
       /\ UNCHANGED <<monitoringState, pollCount, timer, now, ticksFired, stopped>>

\* variant of the code: the catch block of manualRefresh counts the failure
RefreshCatchCounts(op, c, msg) ==
  /\ error' = Some(msg)
  /\ isLoading' = FALSE
  /\ pollCount' = pollCount + 1
  /\ timer' = PollingEffect(monitoringState, pollCount')
  /\ calls' = Remove(calls, c)
  /\ event' = Event(op, "threw")
  /\ UNCHANGED <<monitoringState, now, ticksFired, stopped>>

\* the catch and finally blocks of manualRefresh
RefreshCatch(op, c, msg) ==
  /\ error' = Some(msg)
  /\ isLoading' = FALSE
  /\ calls' = Remove(calls, c)
  /\ event' = Event(op, "threw")
  /\ UNCHANGED <<monitoringState, pollCount, timer, now, ticksFired, stopped>>

\* variant of the code: a manual refresh that obtains a result resets the poll count
RefreshFinishResets(op, c, details) ==
  /\ monitoringState' =
       UpdateSession(monitoringState,
                     IF details # None
                     THEN Spread([lastChecked |-> now], Fold(details[1]))
                     ELSE [lastChecked |-> now])
  /\ isLoading' = FALSE
  /\ pollCount' = IF details # None THEN 0 ELSE pollCount
  /\ timer' = PollingEffect(monitoringState', pollCount')
  /\ calls' = Remove(calls, c)
  /\ event' = Event(op, IF details # None THEN "result" ELSE "null")
  /\ UNCHANGED <<error, now, ticksFired, stopped>>

\* variant of the code: manualRefresh does not clear the loading flag
RefreshFinishStaysLoading(op, c, details) ==
  /\ monitoringState' =
       UpdateSession(monitoringState,
                     IF details # None
                     THEN Spread([lastChecked |-> now], Fold(details[1]))
                     ELSE [lastChecked |-> now])
  /\ isLoading' = isLoading
  /\ timer' = PollingEffect(monitoringState', pollCount)
  /\ calls' = Remove(calls, c)
  /\ event' = Event(op, IF details # None THEN "result" ELSE "null")
  /\ UNCHANGED <<error, pollCount, now, ticksFired, stopped>>

\* the end of manualRefresh once its check has returned
RefreshFinish(op, c, details) ==
  /\ monitoringState' =
       UpdateSession(monitoringState,
                     IF details # None
                     THEN Spread([lastChecked |-> now], Fold(details[1]))
                     ELSE [lastChecked |-> now])
  /\ isLoading' = FALSE
  /\ timer' = PollingEffect(monitoringState', pollCount)
  /\ calls' = Remove(calls, c)
  /\ event' = Event(op, IF details # None THEN "result" ELSE "null")
  /\ UNCHANGED <<error, pollCount, now, ticksFired, stopped>>

RefreshRequestsDone(c, reply) ==
  /\ c \in InFlight /\ c.kind = "refresh" /\ c.pc = "requests"
  /\ LET r == checkRequests(reply) IN
     CASE r.next = "threw" -> RefreshCatch("RefreshRequestsDone", c, r.msg)
       [] r.next = "null" -> RefreshFinish("RefreshRequestsDone", c, None)
       [] r.next = "status" ->
            /\ calls' = Add(Remove(calls, c), Call("refresh", "status", c.hash, <<>>, r.requestId))
            /\ event' = Event("RefreshRequestsDone", "pending")
            /\ UNCHANGED <<monitoringState, isLoading, error, pollCount, timer, now,
                           ticksFired, stopped>>

RefreshStatusDone(c, reply) ==
  /\ c \in InFlight /\ c.kind = "refresh" /\ c.pc = "status"
  /\ LET r == checkStatus(c.requestId, reply) IN
     IF r.next = "threw" THEN RefreshCatch("RefreshStatusDone", c, r.msg)
     ELSE RefreshFinish("RefreshStatusDone", c, r.details)

(***************************************************************************)
(* stopMonitoring                                                          *)
(***************************************************************************)
stopMonitoring ==
  /\ monitoringState' = None
  /\ error' = None
  /\ pollCount' = 0
  /\ timer' = PollingEffect(monitoringState', pollCount')
  /\ stopped' = TRUE
  /\ event' = Event("stopMonitoring", "-")
  /\ UNCHANGED <<isLoading, calls, now, ticksFired>>

(***************************************************************************)
(* relayApi.indexTransaction called with any argument: relayApi is an      *)
(* exported object, the call is not tied to a session of the hook.         *)
(***************************************************************************)
\* indexTransaction(request) up to its await of the POST
indexTransactionCall(request) ==
  IF indexTransactionInvalid(request) # None
  THEN /\ event' = Event("indexTransaction", "threw")
       /\ UNCHANGED <<monitoringState, isLoading, error, pollCount, timer, calls, now,
                      ticksFired, stopped>>
  ELSE /\ CanSuspend
       /\ calls' = Add(calls, [IndexCall(request) EXCEPT !.kind = "api"])
       /\ event' = Event("indexTransaction", "sent")
       /\ UNCHANGED <<monitoringState, isLoading, error, pollCount, timer, now,
                      ticksFired, stopped>>

\* the POST settles
indexTransactionDone(c, reply) ==
  /\ c \in InFlight /\ c.kind = "api" /\ c.pc = "index"
  /\ calls' = Remove(calls, c)
  /\ event' = Event("indexTransactionDone",
                    IF indexTransaction([hash |-> c.hash, chainId |-> c.chainId], reply).threw
                    THEN "threw" ELSE "ok")
  /\ UNCHANGED <<monitoringState, isLoading, error, pollCount, timer, now,
                 ticksFired, stopped>>

(***************************************************************************)
(* The specification.                                                      *)
(***************************************************************************)
Next ==
  \/ \E url \in StartInputs : StartCall(url)
  \/ \E c \in InFlight : \E reply \in ChainsReplies : StartChainsDone(c, reply)
  \/ \E c \in InFlight : \E reply \in CoreIndexReplies : StartIndexDone(c, reply)
  \/ \E c \in InFlight : \E reply \in CoreRequestsReplies : StartRequestsDone(c, reply)
  \/ \E c \in InFlight : \E reply \in CoreStatusReplies : StartStatusDone(c, reply)
  \/ TickFire(MaxTicks)
  \/ \E c \in InFlight : \E reply \in CoreRequestsReplies : TickRequestsDone(c, reply)
  \/ \E c \in InFlight : \E reply \in CoreStatusReplies : TickStatusDone(c, reply)
  \/ RefreshCall
  \/ \E c \in InFlight : \E reply \in CoreRequestsReplies : RefreshRequestsDone(c, reply)
  \/ \E c \in InFlight : \E reply \in CoreStatusReplies : RefreshStatusDone(c, reply)
  \/ stopMonitoring

Spec == Init /\ [][Next]_vars

TypeOK ==
  /\ isLoading \in BOOLEAN
  /\ pollCount \in 0..(MaxTicks + MaxCalls)
  /\ BagCardinality(calls) <= MaxCalls
  /\ now \in 0..MaxClock
  /\ ticksFired \in 0..MaxTicks
  /\ event.polls \in 0..(MaxTicks + MaxCalls)

(***************************************************************************)
(* Specifications over restricted environments.                            *)
(***************************************************************************)
\* one transaction whose checks never find a record, while time passes: the
\* polling schedule
NextPoll ==
  \/ StartCall(UrlA)
  \/ \E c \in InFlight : \E reply \in QuietIndexReplies : StartIndexDone(c, reply)
  \/ \E c \in InFlight : \E reply \in EmptyRequestsReplies : StartRequestsDone(c, reply)
  \/ TickFire(MaxPollTicks)
  \/ \E c \in InFlight : \E reply \in EmptyRequestsReplies : TickRequestsDone(c, reply)
  \/ AdvanceClock

SpecPoll == Init /\ [][NextPoll]_vars

\* an index endpoint that succeeds or answers HTTP 500 with any body
NextIndex ==
  \/ \E url \in {UrlA, UrlB} : StartCall(url)
  \/ \E c \in InFlight : \E reply \in Index500Replies : StartIndexDone(c, reply)
  \/ \E c \in InFlight : \E reply \in CoreRequestsReplies : StartRequestsDone(c, reply)
  \/ \E c \in InFlight : \E reply \in CoreStatusReplies : StartStatusDone(c, reply)
  \/ TickFire(MaxTicks)
  \/ \E c \in InFlight : \E reply \in CoreRequestsReplies : TickRequestsDone(c, reply)
  \/ \E c \in InFlight : \E reply \in CoreStatusReplies : TickStatusDone(c, reply)
  \/ stopMonitoring

SpecIndex == Init /\ [][NextIndex]_vars

\* the resolver on every kind of input, up to the answer of the index endpoint
NextResolve ==
  \/ \E url \in ResolverInputs : StartCall(url)
  \/ \E c \in InFlight : \E reply \in ChainsReplies : StartChainsDone(c, reply)
  \/ \E c \in InFlight : \E reply \in QuietIndexReplies : StartIndexDone(c, reply)
  \/ stopMonitoring

SpecResolve == Init /\ [][NextResolve]_vars

\* the answers of the chain list that are a list of chains
ListedChainsReplies ==
  {reply \in ChainsReplies : ~getChains(reply).threw /\ getChains(reply).kind = "array"}

\* the resolver with a chain list that the upstream always answers
NextDirectory ==
  \/ \E url \in ResolverInputs : StartCall(url)
  \/ \E c \in InFlight : \E reply \in ListedChainsReplies : StartChainsDone(c, reply)
  \/ stopMonitoring

SpecDirectory == Init /\ [][NextDirectory]_vars

\* a session whose manual refreshes are refused by the upstream in every way:
\* manualRefresh shows the message of the error as makeRequest made it
NextErrors ==
  \/ \E url \in {UrlA, UrlB} : StartCall(url)
  \/ \E c \in InFlight : \E reply \in QuietIndexReplies : StartIndexDone(c, reply)
  \/ \E c \in InFlight : \E reply \in EmptyRequestsReplies : StartRequestsDone(c, reply)
  \/ RefreshCall
  \/ \E c \in InFlight : \E reply \in ErrorReplies \cup EmptyRequestsReplies :
       RefreshRequestsDone(c, reply)
  \/ stopMonitoring

SpecErrors == Init /\ [][NextErrors]_vars

\* sessions whose request is always found, with a status endpoint that
\* answers with every kind of body
NextStatus ==
  \/ \E url \in {UrlA, UrlB} : StartCall(url)
  \/ \E c \in InFlight : \E reply \in QuietIndexReplies : StartIndexDone(c, reply)
  \/ \E c \in InFlight : \E reply \in IdRequestsReplies : StartRequestsDone(c, reply)
  \/ \E c \in InFlight : \E reply \in AnyStatusReplies : StartStatusDone(c, reply)
  \/ RefreshCall
  \/ \E c \in InFlight : \E reply \in IdRequestsReplies : RefreshRequestsDone(c, reply)
  \/ \E c \in InFlight : \E reply \in AnyStatusReplies : RefreshStatusDone(c, reply)

SpecStatus == Init /\ [][NextStatus]_vars

\* sessions whose request lookups are always answered without a record
NextEmpty ==
  \/ \E url \in {UrlA, UrlB} : StartCall(url)
  \/ \E c \in InFlight : \E reply \in QuietIndexReplies : StartIndexDone(c, reply)
  \/ \E c \in InFlight : \E reply \in NoRecordReplies : StartRequestsDone(c, reply)
  \/ TickFire(MaxTicks)
  \/ \E c \in InFlight : \E reply \in NoRecordReplies : TickRequestsDone(c, reply)
  \/ RefreshCall
  \/ \E c \in InFlight : \E reply \in NoRecordReplies : RefreshRequestsDone(c, reply)

SpecEmpty == Init /\ [][NextEmpty]_vars

\* the check cycle of every caller, on every kind of list of records
NextCycle ==
  \/ StartCall(UrlA)
  \/ \E c \in InFlight : \E reply \in QuietIndexReplies : StartIndexDone(c, reply)
  \/ \E c \in InFlight : \E reply \in CycleRequestsReplies : StartRequestsDone(c, reply)
  \/ \E c \in InFlight : \E reply \in CycleStatusReplies : StartStatusDone(c, reply)
  \/ TickFire(MaxCycleTicks)
  \/ \E c \in InFlight : \E reply \in CycleRequestsReplies : TickRequestsDone(c, reply)
  \/ \E c \in InFlight : \E reply \in CycleStatusReplies : TickStatusDone(c, reply)
  \/ RefreshCall
  \/ \E c \in InFlight : \E reply \in CycleRequestsReplies : RefreshRequestsDone(c, reply)
  \/ \E c \in InFlight : \E reply \in CycleStatusReplies : RefreshStatusDone(c, reply)

SpecCycle == Init /\ [][NextCycle]_vars

\* one session and its timer ticks, which find a record or none, while time
\* passes
TickRequestsReplies ==
  { Ok(TRUE, ObjectBody([requests |-> <<>>])),
    Ok(TRUE, ObjectBody([requests |-> << [id |-> "r1", status |-> "pending"] >>])) }

NextTicks ==
  \/ StartCall(UrlA)
  \/ \E c \in InFlight : \E reply \in QuietIndexReplies : StartIndexDone(c, reply)
  \/ \E c \in InFlight : \E reply \in EmptyRequestsReplies : StartRequestsDone(c, reply)
  \/ TickFire(MaxTicks)
  \/ \E c \in InFlight : \E reply \in TickRequestsReplies : TickRequestsDone(c, reply)
  \/ \E c \in InFlight : \E reply \in CycleStatusReplies : TickStatusDone(c, reply)
  \/ AdvanceClock

SpecTicks == Init /\ [][NextTicks]_vars

\* one session that is never stopped: the first MaxFailedPolls polls may find
\* nothing or fail, from then on every check cycle finds a record with an id
\* and its status; the timer fires and every request is answered (weak
\* fairness of the interval's callback and of each awaited fetch)
FoundRequestsReplies ==
  { Ok(TRUE, ObjectBody([requests |-> << [id |-> "r1", status |-> "pending"] >>])) }

SuccessStatusReplies ==
  { Ok(TRUE, ObjectBody([status |-> "success", requestId |-> "r9"])) }

LiveRequestsReplies ==
  IF pollCount < MaxFailedPolls THEN TickRequestsReplies ELSE FoundRequestsReplies

LiveStatusReplies ==
  IF pollCount < MaxFailedPolls THEN CycleStatusReplies ELSE SuccessStatusReplies

LiveTicks == MaxFailedPolls + MaxCalls + 1

LiveStart == event.op = "init" /\ StartCall(UrlA)
LiveStartIndexDone ==
  \E c \in InFlight : \E reply \in QuietIndexReplies : StartIndexDone(c, reply)
LiveStartRequestsDone ==
  \E c \in InFlight : \E reply \in LiveRequestsReplies : StartRequestsDone(c, reply)
LiveStartStatusDone ==
  \E c \in InFlight : \E reply \in LiveStatusReplies : StartStatusDone(c, reply)
LiveTickRequestsDone ==
  \E c \in InFlight : \E reply \in LiveRequestsReplies : TickRequestsDone(c, reply)
LiveTickStatusDone ==
  \E c \in InFlight : \E reply \in LiveStatusReplies : TickStatusDone(c, reply)

NextLive ==
  \/ LiveStart
  \/ LiveStartIndexDone
  \/ LiveStartRequestsDone
  \/ LiveStartStatusDone
  \/ TickFire(LiveTicks)
  \/ LiveTickRequestsDone
  \/ LiveTickStatusDone
  \/ AdvanceClock

LiveFairness ==
  /\ WF_vars(TickFire(LiveTicks))
  /\ WF_vars(LiveStartIndexDone)
  /\ WF_vars(LiveStartRequestsDone)
  /\ WF_vars(LiveStartStatusDone)
  /\ WF_vars(LiveTickRequestsDone)
  /\ WF_vars(LiveTickStatusDone)

SpecLive == Init /\ [][NextLive]_vars /\ LiveFairness

\* one session whose polls never obtain a result: every tick and every manual
\* refresh finds no record, or fails at the lookup or at the status fetch;
\* stopMonitoring is not called
NoResultRequestsReplies ==
  { Ok(TRUE, ObjectBody([requests |-> <<>>])),
    Ok(TRUE, ObjectBody([requests |-> << [id |-> "r1", status |-> "pending"] >>])),
    Http500(TextBody(<<>>)) }

FailedStatusReplies == { Http500(TextBody(<<>>)) }

NextForever ==
  \/ StartCall(UrlA)
  \/ \E c \in InFlight : \E reply \in QuietIndexReplies : StartIndexDone(c, reply)
  \/ \E c \in InFlight : \E reply \in EmptyRequestsReplies : StartRequestsDone(c, reply)
  \/ TickFire(MaxPollTicks)
  \/ \E c \in InFlight : \E reply \in NoResultRequestsReplies : TickRequestsDone(c, reply)
  \/ \E c \in InFlight : \E reply \in FailedStatusReplies : TickStatusDone(c, reply)
  \/ RefreshCall
  \/ \E c \in InFlight : \E reply \in NoResultRequestsReplies : RefreshRequestsDone(c, reply)
  \/ \E c \in InFlight : \E reply \in FailedStatusReplies : RefreshStatusDone(c, reply)

SpecForever == Init /\ [][NextForever]_vars

\* indexTransaction on every kind of argument
NextSubmit ==
  \/ \E request \in IndexRequests : indexTransactionCall(request)
  \/ \E c \in InFlight : \E reply \in CoreIndexReplies : indexTransactionDone(c, reply)

SpecSubmit == Init /\ [][NextSubmit]_vars

(***************************************************************************)
(* Properties.                                                             *)
(***************************************************************************)
\* the invocations that stop being suspended where they were in this step
Completed == {c \in InFlight : CopiesIn(c, calls') < CopiesIn(c, calls)}

\* an optional field of the session
Field(ms, f) == IF ms # None /\ Has(ms[1], f) THEN Some(ms[1][f]) ELSE None

\* requestId, latestStatus and isActive of the session
SessionCore(ms) ==
  <<Field(ms, "requestId"), Field(ms, "transactionDetails"), Field(ms, "isMonitoring")>>

\* the session is resolved: not active, requestId and latestStatus set
IsResolved(ms) ==
  /\ ms # None
  /\ ~IsActive(ms)
  /\ Field(ms, "requestId") # None
  /\ Field(ms, "transactionDetails") # None

CheckDoneOps == {"StartRequestsDone", "StartStatusDone", "TickRequestsDone",
                 "TickStatusDone", "RefreshRequestsDone", "RefreshStatusDone"}

\* C1: after stopMonitoring, until startMonitoring is called again, the
\* session is absent, whatever check cycles complete in the meantime.
C1_StoppedSessionAbsent == stopped => monitoringState = None

\* a check cycle that was in flight at stop has returned a result after it
C1_Witness ==
  /\ stopped
  /\ monitoringState = None
  /\ event.op \in {"StartStatusDone", "TickStatusDone", "RefreshStatusDone"}
  /\ event.outcome = "result"

\* C2: a result of a check cycle started for another transaction hash than
\* that of the session that exists when it arrives leaves the session's
\* requestId, latestStatus and isActive unchanged.
C2_StaleResultNotFolded ==
  [][(/\ event'.outcome = "result"
      /\ monitoringState # None
      /\ \E c \in Completed : c.hash # monitoringState[1].transactionHash)
     => SessionCore(monitoringState') = SessionCore(monitoringState)]_vars

\* C3: after stopMonitoring, until startMonitoring is called again,
\* pollCount is 0.
C3_StoppedPollCountZero == stopped => pollCount = 0

\* C4 as claimed: pollCount decreases only by a reset to 0, and it is reset
\* exactly in the steps in which a check cycle obtains a result.
C4_ResetExactlyOnResult ==
  /\ pollCount < event.polls => (pollCount = 0 /\ event.outcome = "result")
  /\ event.outcome = "result" => pollCount = 0

StartOps == {"StartCall", "StartChainsDone", "StartIndexDone", "StartRequestsDone",
             "StartStatusDone"}

\* the steps that reset pollCount: a tick that obtains a result, the call of
\* startMonitoring, its catch block, and stopMonitoring
ResetStep(e) ==
  \/ e.op = "TickStatusDone" /\ e.outcome = "result"
  \/ e.op = "StartCall"
  \/ e.op \in StartOps /\ e.outcome \in {"nohash", "nochain", "failed", "threw"}
  \/ e.op = "stopMonitoring"

\* C4 as amended: pollCount decreases only by a reset to 0, and only in a
\* timer tick that obtains a result, in startMonitoring (its call and its
\* catch block) and in stopMonitoring.
C4_DecreaseOnlyByReset == pollCount < event.polls => (pollCount = 0 /\ ResetStep(event))

\* pollCount was reset from at least 2 by a tick that obtained a result
C4_Witness ==
  /\ event.op = "TickStatusDone"
  /\ event.outcome = "result"
  /\ event.polls >= 2
  /\ pollCount = 0

\* C5 as claimed: whenever a result is folded into the session, pollCount is
\* 0 in the resulting state.
C5_FoldResetsPollCount ==
  (event.outcome = "result" /\ monitoringState # None) => pollCount = 0

\* C5 as amended: a result folded in by a timer tick leaves pollCount 0; one
\* folded in by the immediate check or by a manual refresh leaves pollCount
\* as it was.
C5_TickFoldResetsPollCount ==
  (event.outcome = "result" /\ monitoringState # None)
  => IF event.op = "TickStatusDone" THEN pollCount = 0 ELSE pollCount = event.polls

\* a tick has folded a result into a session whose pollCount was not 0
C5_Witness ==
  /\ event.op = "TickStatusDone"
  /\ event.outcome = "result"
  /\ IsResolved(monitoringState)
  /\ event.polls > 0

\* C6: the timer tick of attempt n is fired by an interval of 2 s when
\* n <= 30 and of 10 s when n > 30.
C6_IntervalByAttempt ==
  event.op = "TickFire"
  => /\ timer # None
     /\ timer[1].interval = IF ticksFired <= MAX_FAST_POLLS THEN POLLING_INTERVAL
                            ELSE SLOW_POLLING_INTERVAL

\* C7 as claimed: an empty check leaves an active session active, and a
\* check that finds a result after at least one empty check, no other check
\* being in flight, resolves the active session with pollCount 0.
C7_EmptyThenResult ==
  /\ (event.op \in CheckDoneOps /\ event.outcome = "null" /\ event.active)
     => IsActive(monitoringState)
  /\ (/\ event.outcome = "result"
      /\ event.polls >= 1
      /\ event.active
      /\ calls = EmptyBag)
     => (IsResolved(monitoringState) /\ pollCount = 0)

\* C7 as amended: an empty check leaves an active session active; a check
\* that finds a result resolves the session; pollCount is then 0 when the
\* check was a timer tick and unchanged otherwise.
C7_EmptyThenTickResult ==
  /\ (event.op \in CheckDoneOps /\ event.outcome = "null" /\ event.active)
     => IsActive(monitoringState)
  /\ (event.outcome = "result" /\ monitoringState # None) => IsResolved(monitoringState)
  /\ (event.op = "TickStatusDone" /\ event.outcome = "result" /\ monitoringState # None)
     => pollCount = 0
  /\ (event.op # "TickStatusDone" /\ event.outcome = "result") => pollCount = event.polls

\* the second tick of an active session resolves it after an empty tick
C7_Witness ==
  /\ event.op = "TickStatusDone"
  /\ event.outcome = "result"
  /\ event.active
  /\ event.polls >= 1
  /\ ticksFired = 2
  /\ IsResolved(monitoringState)
  /\ pollCount = 0

\* no invocation is suspended at an Indexing Client operation after the step
\* that was not before it
NoIndexingCallAdded ==
  \A c \in BagToSet(calls') :
    c.pc \in {"index", "requests", "status"} => CopiesIn(c, calls') <= CopiesIn(c, calls)

\* C8: a step of startMonitoring in which identifier resolution fails sets
\* the error, leaves no session and calls no Indexing Client operation.
C8_ResolutionFailure ==
  [][event'.outcome \in {"nohash", "nochain"}
     => /\ error' = Some(IF event'.outcome = "nohash" THEN MsgInvalidUrl ELSE MsgNoChain)
        /\ monitoringState' = None
        /\ NoIndexingCallAdded]_vars

\* a bare hash was submitted and no chain id could be determined
C8_Witness ==
  /\ event.op = "StartChainsDone"
  /\ event.outcome = "nochain"
  /\ error = Some(MsgNoChain)
  /\ monitoringState = None

\* C9: when indexTransaction fails, the error is set and no session exists.
C9_IndexFailure ==
  (event.op = "StartIndexDone" /\ event.outcome = "failed")
  => (error # None /\ monitoringState = None)

\* the submit failed after a timer tick had fired while it was in flight
C9_Witness ==
  /\ event.op = "StartIndexDone"
  /\ event.outcome = "failed"
  /\ ticksFired >= 1
  /\ error = Some(MsgUnavailable)
  /\ monitoringState = None

\* C10: when the index endpoint answers HTTP 500, startMonitoring sets the
\* "temporarily unavailable" message and leaves no session.
C10_Http500Unavailable ==
  (event.op = "StartIndexDone" /\ event.outcome = "failed")
  => (error = Some(MsgUnavailable) /\ monitoringState = None)

ImmediateOps == {"StartRequestsDone", "StartStatusDone"}

C12_CheckExceptionTransient ==
  [][(event'.op \in CheckDoneOps /\ event'.outcome = "threw")
     => (monitoringState' = monitoringState /\ error' = error)]_vars

TickOps == {"TickRequestsDone", "TickStatusDone"}

\* C13: when the check cycle of a timer tick raises an exception, the
\* session is left as it is (an active session stays active, with the same
\* transactionHash, requestId and transactionDetails), pollCount grows by
\* exactly 1, and for an active session a timer is armed for a further tick.
C13_TickExceptionCounts ==
  [][(event'.op \in TickOps /\ event'.outcome = "threw")
     => /\ monitoringState' = monitoringState
        /\ pollCount' = pollCount + 1
        /\ IsActive(monitoringState)
           => (timer' # None /\ timer'[1].hash = monitoringState[1].transactionHash)]_vars

\* the status fetch of a tick has failed for an active session
C13_Witness ==
  /\ event.op = "TickStatusDone"
  /\ event.outcome = "threw"
  /\ IsActive(monitoringState)
  /\ pollCount = event.polls + 1
  /\ timer # None

\* the number of tick-initiated check cycles in flight for hash
TicksInFlight(hash) ==
  LET ticks == {c \in InFlight : c.kind = "tick" /\ c.hash = hash}
  IN BagCardinality([c \in ticks |-> CopiesIn(c, calls)])

\* C14: at most one tick-initiated check cycle of the session is in flight
\* at any time.
C14_TicksSerialized ==
  HasHash(monitoringState) => TicksInFlight(monitoringState[1].transactionHash) <= 1

C16_ResolvedStopsTimer ==
  [][/\ (event'.op = "TickStatusDone" /\ event'.outcome = "result") => timer' = None
     /\ ~IsActive(monitoringState') => timer' = None
     /\ event'.op = "TickFire" => IsActive(monitoringState)]_vars

\* a tick has resolved the session while the bound on ticks would still
\* allow another one
C16_Witness ==
  /\ event.op = "TickStatusDone"
  /\ event.outcome = "result"
  /\ event.active
  /\ IsResolved(monitoringState)
  /\ timer = None
  /\ ticksFired < MaxTicks
  /\ CanSuspend

\* C17: in an existing session requestId is set if and only if
\* transactionDetails is set, and then requestId is the requestId of
\* transactionDetails.
C17_RequestIdWithDetails ==
  monitoringState # None
  => /\ Field(monitoringState, "requestId") # None
        <=> Field(monitoringState, "transactionDetails") # None
     /\ Field(monitoringState, "requestId") # None
        => monitoringState[1].requestId = monitoringState[1].transactionDetails.requestId

\* a manual refresh has folded the status of request r1 into the session
C17_Witness ==
  /\ event.op = "RefreshStatusDone"
  /\ event.outcome = "result"
  /\ Field(monitoringState, "requestId") = Some("r1")
  /\ Field(monitoringState, "transactionDetails") # None

\* the status of the details is set and is not pending
IsTerminal(details) == Has(details, "status") /\ details.status # "pending"

\* C18: a step that takes an existing session from isMonitoring true to
\* isMonitoring false folds in details with a terminal status, and only a
\* new session of startMonitoring takes isMonitoring from false to true.
C18_ActiveUntilTerminal ==
  [][/\ (IsActive(monitoringState) /\ monitoringState' # None /\ ~IsActive(monitoringState'))
        => /\ Field(monitoringState', "transactionDetails") # None
           /\ IsTerminal(monitoringState'[1].transactionDetails)
     /\ (monitoringState # None /\ ~IsActive(monitoringState) /\ IsActive(monitoringState'))
        => event'.op \in {"StartCall", "StartChainsDone"}]_vars

\* C19: every step that leaves a session in place, other than
\* startMonitoring creating a new one, leaves its transactionHash unchanged.
C19_HashImmutable ==
  [][(/\ monitoringState # None
      /\ monitoringState' # None
      /\ event'.op \notin {"StartCall", "StartChainsDone"})
     => Field(monitoringState', "transactionHash") = Field(monitoringState, "transactionHash")]_vars

\* an empty tick has updated the session of the second transaction
C19_Witness ==
  /\ event.op = "TickRequestsDone"
  /\ event.outcome = "null"
  /\ Field(monitoringState, "transactionHash") = Some(HashB)
  /\ pollCount >= 1

RefreshOps == {"RefreshCall", "RefreshRequestsDone", "RefreshStatusDone"}

\* C20: manualRefresh without a session changes nothing and calls nothing;
\* with a session it starts exactly one check cycle for the session's hash,
\* its later steps start no other, and none of its steps changes pollCount.
C20_RefreshFrame ==
  [][/\ (event'.op = "RefreshCall" /\ ~HasHash(monitoringState))
        => UNCHANGED <<monitoringState, isLoading, error, pollCount, timer, calls>>
     /\ (event'.op = "RefreshCall" /\ HasHash(monitoringState))
        => /\ BagCardinality(calls') = BagCardinality(calls) + 1
           /\ \E c \in BagToSet(calls') :
                /\ c.kind = "refresh"
                /\ c.pc = "requests"
                /\ c.hash = monitoringState[1].transactionHash
                /\ CopiesIn(c, calls') = CopiesIn(c, calls) + 1
     /\ event'.op \in {"RefreshRequestsDone", "RefreshStatusDone"}
        => BagCardinality(calls') <= BagCardinality(calls)
     /\ event'.op \in RefreshOps => pollCount' = pollCount]_vars

\* a manual refresh has failed after at least one counted tick
C20_Witness ==
  /\ event.op = "RefreshRequestsDone"
  /\ event.outcome = "threw"
  /\ monitoringState # None
  /\ event.polls >= 1
  /\ pollCount = event.polls

C22_StoppedFlagsClear ==
  stopped => (monitoringState = None /\ ~isLoading /\ error = None)

\* C23: extractTxHashFromUrl returns null exactly for the inputs that are
\* neither a hash between spaces nor an explorer link: startMonitoring then
\* fails with the invalid-URL message and awaits nothing.  For a hash between
\* spaces it returns the hash without the spaces, which startMonitoring
\* carries to the chain lookup; for an explorer link it returns a hash.
C23_HashExtraction ==
  [][/\ \A url \in OtherInputs :
          StartCall(url) => (/\ event'.outcome = "nohash"
                             /\ error' = Some(MsgInvalidUrl)
                             /\ calls' = calls)
     /\ \A in \in BareInputs :
          StartCall(in.url) => (/\ event'.outcome = "chains"
                                /\ \E c \in BagToSet(calls') :
                                     c.pc = "chains" /\ c.url = in.url /\ c.hash = in.hash)
     /\ \A in \in ExplorerInputs :
          StartCall(in.url) => (/\ event'.outcome = "session"
                                /\ error' = None
                                /\ monitoringState'[1].transactionHash = in.hash)]_vars

\* an input without a hash has just been refused while the lookup of a hash
\* typed with a space before it is in flight
C23_Witness ==
  /\ event.op = "StartCall"
  /\ event.outcome = "nohash"
  /\ error = Some(MsgInvalidUrl)
  /\ \E c \in InFlight : c.pc = "chains" /\ c.url = <<" ">> \o HashA /\ c.hash = HashA

\* C24: for every host H of the static table, startMonitoring of
\* https://H/tx/<hash> submits that hash for indexing with the chain id the
\* table gives for H itself.
C24_ExactHostChain ==
  [][\A n \in 1..Len(staticMappings) :
       StartCall(HostUrl(n))
         => calls' = Add(calls, IndexCall([hash |-> HashA,
                                           chainId |-> staticMappings[n].chainId]))]_vars

\* the chain list answered by reply has a chain of this id
DirectoryLists(reply, chainId) ==
  LET fetched == getChains(reply) IN
  /\ ~fetched.threw
  /\ fetched.kind = "array"
  /\ \E n \in 1..Len(fetched.value[1]) : ParseInt(fetched.value[1][n].id) = chainId

\* C25: a chain id is accepted, and the transaction submitted for indexing
\* with it, only in a step in which the chain list has been answered and
\* lists that id.
C25_ChainIdInDirectory ==
  [][\A c \in BagToSet(calls') :
       (c.pc = "index" /\ CopiesIn(c, calls') > CopiesIn(c, calls))
         => \E d \in InFlight : \E reply \in ChainsReplies :
              StartChainsDone(d, reply) /\ DirectoryLists(reply, c.chainId)]_vars

\* C26: once a fetch of the chain list has succeeded, the next chain lookup
\* is served from the snapshot: it sends no request for the chain list.
\* (Under SpecDirectory every fetch that settles has succeeded.)
C26_ServedFromCache ==
  [][event.op = "StartChainsDone"
       => \A c \in BagToSet(calls') :
            c.pc = "chains" => CopiesIn(c, calls') <= CopiesIn(c, calls)]_vars

\* C27: the force-index request is in flight only for a hash of the canonical
\* shape and a positive chain id.
C27_SentOnlyIfValid ==
  \A c \in InFlight :
    c.pc = "index" => (IsCanonicalHash(c.hash) /\ c.chainId > 0)

\* C28 as claimed: the error of a non-2xx response carries the first present
\* of the body's message, error and details fields and the raw body text, and
\* the generic message only when the body is empty.
C28_FirstPresentMessage ==
  [][\A c \in InFlight : \A reply \in ErrorReplies :
       RefreshRequestsDone(c, reply) =>
         LET body == reply.body
             generic == <<"API request failed: ">> \o reply.status \o <<" ">> \o reply.statusText
         IN /\ error' # None
            /\ (body.kind = "object" /\ Truthy(body.obj[1], "message"))
                 => error'[1] = body.obj[1].message
            /\ (body.kind = "text" /\ body.text # <<>>) => error'[1] = body.text
            /\ (body.kind = "text" /\ body.text = <<>>) => error'[1] = generic]_vars

\* C28 as amended: the message is the first non-empty of the message, error
\* and details fields of a JSON object body; a JSON string body is the
\* message; otherwise it is the generic message, followed by " - " and the
\* raw body text when the body is not empty and is not JSON (or is null).
C28_ErrorMessage ==
  [][\A c \in InFlight : \A reply \in ErrorReplies :
       RefreshRequestsDone(c, reply) =>
         LET body == reply.body
             generic == <<"API request failed: ">> \o reply.status \o <<" ">> \o reply.statusText
             Filled(f) == f \in DOMAIN body.obj[1] /\ body.obj[1][f] # <<>>
         IN /\ error' # None
            /\ (body.kind = "object" /\ Filled("message"))
                 => error'[1] = body.obj[1].message
            /\ (body.kind = "object" /\ ~Filled("message") /\ Filled("error"))
                 => error'[1] = body.obj[1].error
            /\ (body.kind = "object" /\ ~Filled("message") /\ ~Filled("error")
                   /\ Filled("details"))
                 => error'[1] = body.obj[1].details
            /\ (body.kind = "object" /\ ~Filled("message") /\ ~Filled("error")
                   /\ ~Filled("details"))
                 => error'[1] = generic
            /\ body.kind = "array" => error'[1] = generic
            /\ body.kind = "string" => error'[1] = body.text
            /\ body.kind = "null" => error'[1] = generic \o <<" - ", "null">>
            /\ (body.kind = "text" /\ body.text # <<>>)
                 => error'[1] = generic \o <<" - ">> \o body.text
            /\ (body.kind = "text" /\ body.text = <<>>) => error'[1] = generic]_vars

\* a refresh was refused with a body that has a message field, which is shown
C28_Witness ==
  /\ event.op = "RefreshRequestsDone"
  /\ event.outcome = "threw"
  /\ error = Some(<<"indexing failed">>)

\* C29: when getRequestStatus(requestId) returns, whatever the body of the
\* response, the details it returns carry the requestId it was called with:
\* the session that folds them in has that id in requestId and in
\* transactionDetails.requestId.
C29_StatusKeepsRequestId ==
  [][\A c \in InFlight : \A reply \in AnyStatusReplies :
       ((StartStatusDone(c, reply) \/ RefreshStatusDone(c, reply))
          /\ event'.outcome = "result" /\ monitoringState' # None)
       => /\ monitoringState'[1].transactionDetails.requestId = c.requestId
          /\ monitoringState'[1].requestId = c.requestId]_vars

\* the details of a response whose body had a requestId of its own ("r9")
\* are in the session, under the id that was asked for
C29_Witness ==
  /\ event.op \in {"StartStatusDone", "RefreshStatusDone"}
  /\ event.outcome = "result"
  /\ monitoringState # None
  /\ Has(monitoringState[1], "transactionDetails")
  /\ Has(monitoringState[1].transactionDetails, "status")
  /\ monitoringState[1].transactionDetails.status = "refund"
  /\ monitoringState[1].transactionDetails.requestId \in {"r1", "r2"}

\* a lookup of the requests settles with this reply
RequestsDone(c, reply) ==
  \/ StartRequestsDone(c, reply)
  \/ TickRequestsDone(c, reply)
  \/ RefreshRequestsDone(c, reply)

\* the check cycle returns null: nothing is thrown, no error is set and no
\* status request follows
NoResultYet(c, reply) ==
  /\ getRequestsByTxHash(reply) = ReturnedArray(<<>>)
  /\ event'.outcome = "null"
  /\ error' = error
  /\ calls' = Remove(calls, c)

\* C30 as claimed: whenever the upstream answers the request lookup
\* successfully without a request record, getRequestsByTxHash returns the
\* empty sequence and the check cycle reports no result yet.
C30_NoRecordNoError ==
  [][\A c \in InFlight : \A reply \in NoRecordReplies :
       RequestsDone(c, reply) => NoResultYet(c, reply)]_vars

\* C30 as amended: the same, for a successful answer that is not declared as
\* JSON, or whose JSON body is an object, an array or a string.
C30_NoRecordNoResult ==
  [][\A c \in InFlight : \A reply \in NoRecordReplies :
       (RequestsDone(c, reply)
          /\ (~reply.json \/ reply.body.kind \in {"object", "array", "string"}))
       => NoResultYet(c, reply)]_vars

\* a tick's lookup was answered without a record: the tick counted one more
\* poll and left no error
C30_Witness ==
  /\ event.op = "TickRequestsDone"
  /\ event.outcome = "null"
  /\ pollCount = event.polls + 1
  /\ error = None

\* a fetch of the status settles with this reply
StatusDone(c, reply) ==
  \/ StartStatusDone(c, reply)
  \/ TickStatusDone(c, reply)
  \/ RefreshStatusDone(c, reply)

\* C31: a check cycle begins with the lookup of the requests, and a status
\* fetch is only ever started by a lookup that settles.  When the list is
\* empty or its first record has no id the cycle ends with no result and no
\* status fetch; otherwise exactly one status fetch follows, for the id of
\* the first record.  When that fetch returns, the cycle ends without another
\* fetch and its result is the returned details.
C31_CheckCycle ==
  [][/\ \A c \in BagToSet(calls') :
          CopiesIn(c, calls') > CopiesIn(c, calls)
            => \/ c.pc # "status" /\ (c.kind \in {"tick", "refresh"} => c.pc = "requests")
               \/ /\ c.pc = "status"
                  /\ \E d \in Completed : d.pc = "requests" /\ d.kind = c.kind /\ d.hash = c.hash
     /\ \A c \in InFlight : \A reply \in CycleRequestsReplies :
          RequestsDone(c, reply) =>
            LET list == reply.body.obj[1].requests IN
            IF list = <<>> \/ "id" \notin DOMAIN list[1] \/ list[1].id = ""
            THEN event'.outcome = "null" /\ calls' = Remove(calls, c)
            ELSE /\ event'.outcome = "pending"
                 /\ calls' = Add(Remove(calls, c),
                                 Call(c.kind, "status", c.hash, <<>>, list[1].id))
     /\ \A c \in InFlight : \A reply \in CycleStatusReplies :
          (StatusDone(c, reply) /\ ResponseOk(reply)) =>
            /\ event'.outcome = "result"
            /\ calls' = Remove(calls, c)
            /\ monitoringState' # None
                 => /\ Has(monitoringState'[1], "transactionDetails")
                    /\ monitoringState'[1].transactionDetails
                         = Spread(reply.body.obj[1], [requestId |-> c.requestId])]_vars

\* a tick's lookup was answered with two records and the status of the first
\* one ("r2") is being fetched
C31_Witness ==
  /\ event.op = "TickRequestsDone"
  /\ event.outcome = "pending"
  /\ \E c \in InFlight : c.kind = "tick" /\ c.pc = "status" /\ c.requestId = "r2"

\* C32: a timer tick whose check cycle yields no result leaves isMonitoring,
\* requestId, transactionDetails and transactionHash of the session as they
\* were (an active session stays active), stamps lastChecked with the time
\* of the step, and adds exactly 1 to pollCount, also while another tick of
\* the session is in flight.
C32_EmptyTickCounts ==
  [][(event'.op = "TickRequestsDone" /\ event'.outcome = "null")
     => /\ pollCount' = pollCount + 1
        /\ SessionCore(monitoringState') = SessionCore(monitoringState)
        /\ Field(monitoringState', "transactionHash") = Field(monitoringState, "transactionHash")
        /\ IsActive(monitoringState) => IsActive(monitoringState')
        /\ monitoringState # None => Field(monitoringState', "lastChecked") = Some(now)
        /\ monitoringState = None => monitoringState' = None]_vars

\* the second of two overlapping empty ticks of an active session has
\* completed after the clock moved on: both have counted
C32_Witness ==
  /\ event.op = "TickRequestsDone"
  /\ event.outcome = "null"
  /\ event.polls = 1
  /\ pollCount = 2
  /\ ticksFired = 2
  /\ calls = EmptyBag
  /\ IsActive(monitoringState)
  /\ monitoringState[1].lastChecked = 1

\* C33: when a timer tick starts a check cycle for a session, no
\* startMonitoring of that transaction is still waiting for indexTransaction
\* or for its immediate check.
C33_TickAfterSubmit ==
  event.op = "TickFire"
  => \A c \in InFlight :
       ~(/\ c.kind = "start"
         /\ c.pc \in {"index", "requests", "status"}
         /\ c.hash = timer[1].hash)

====
